---- MODULE Spec2Model ----
(***************************************************************************)
(* OCJS / OCJS_IO: the string exporters of src/builds/shared and the       *)
(* Standard_Failure accessor.                                              *)
(*                                                                         *)
(* The five entry points are synchronous and never overlap (one call per   *)
(* kernel instance at a time), so a call is modelled as a run of steps,    *)
(* one per source statement, and a new call begins only once the previous  *)
(* one has returned or raised.  The OCCT kernel stages (Transfer,          *)
(* WriteStream, AddShape, ...) are external: each is a step whose result   *)
(* is drawn from everything the stage's interface allows (a status, a      *)
(* Boolean, a raised Standard_Failure).  The kernel is deterministic: for  *)
(* one call signature (the probe, any of them) its answers are remembered  *)
(* in memo and given again when the same stage is asked the same thing.    *)
(***************************************************************************)
EXTENDS Integers, Sequences, FiniteSets, TLC

VARIABLES
  pc,        \* <<function, statement>> about to run; Idle between calls
  call,      \* the current (or, when idle, the last) call: fn, shape, param
  writer,    \* the local `writer`: the model it holds, ComputeModel done
  sink,      \* the local `ss`: the tokens streamed into it
  live,      \* the locals that are constructed and not yet destroyed
  trace,     \* the stages the current (last) call has run, in order
  ret,       \* what the last call gave its caller
  igesCtl,   \* IGESControl_Controller's process-wide static state
  heap,      \* what lives at each non-null address of the native heap
  probe,     \* the call signature whose kernel answers are remembered
  memo,      \* the kernel's remembered answers
  hist       \* history of completed calls, for stating the properties

vars == <<pc, call, writer, sink, live, trace, ret, igesCtl, heap, probe, memo, hist>>

----------------------------------------------------------------------------
(* Bounds of the model *)

MaxShape == 2
MaxDepth == 0
MaxAddr == 2

(* Program constants *)

NumModes == 5
STEPControl_AsIs == 0
DefaultDepth == -1

Shapes == 1..MaxShape
Modes == 0..(NumModes - 1)
Depths == {DefaultDepth} \cup (0..MaxDepth)
Tokens == 0..MaxAddr
Status == {"RetVoid", "RetDone", "RetError", "RetFail", "RetStop"}
IFSelect_RetDone == "RetDone"

Idle == <<"idle", "">>

NoCall == [fn |-> "none", shape |-> 0, param |-> 0]
NoRet == [kind |-> "none", val |-> <<>>, addr |-> 0, line |-> 0]
StringRet(s, ln) == [kind |-> "string", val |-> s, addr |-> 0, line |-> ln]
ExceptionRet == [kind |-> "exception", val |-> <<>>, addr |-> 0, line |-> 0]
ViewRet(a, ln) == [kind |-> "view", val |-> <<>>, addr |-> a, line |-> ln]

Ev(e, s, a, k) == [ev |-> e, st |-> s, arg |-> a, n |-> k]

\* Address 0 is null, address 1 holds a caught Standard_Failure, the others hold
\* something else (a forged or stale token points there).
NativeHeap == [a \in 1..MaxAddr |-> IF a = 1 THEN "Standard_Failure" ELSE "other"]

ExportCalls ==
  [fn : {"BRep"}, shape : Shapes, param : {0}]
    \cup [fn : {"DumpJson"}, shape : Shapes, param : Depths]
    \cup [fn : {"IGES"}, shape : Shapes, param : {0}]
    \cup [fn : {"STEP"}, shape : Shapes, param : Modes]

\* The exporters treat every shape alike, so the remembered call is one on shape 1.
Probes == {c \in ExportCalls : c.shape = 1}

----------------------------------------------------------------------------
(* The kernel, as far as its interface tells *)

Resp(t, s, o, k) == [throws |-> t, status |-> s, ok |-> o, n |-> k]

\* STEPControl_Writer::Transfer: an IFSelect_ReturnStatus, or a raised failure
TransferAnswers ==
  {Resp(FALSE, s, s = IFSelect_RetDone, 0) : s \in Status}
    \cup {Resp(TRUE, "", FALSE, 0)}

\* STEPControl_Writer::WriteStream: "done" with the whole file streamed, any
\* other status with nothing or only a leading part streamed, or a raised failure
WriteStreamAnswers ==
  {Resp(FALSE, IFSelect_RetDone, TRUE, 2)}
    \cup {Resp(FALSE, s, FALSE, k) : s \in Status \ {IFSelect_RetDone}, k \in {0, 1}}
    \cup {Resp(TRUE, "", FALSE, 1)}

\* IGESControl_Writer::AddShape: Standard_Boolean, or a raised failure
AddShapeAnswers ==
  {Resp(FALSE, "", b, 0) : b \in BOOLEAN} \cup {Resp(TRUE, "", FALSE, 0)}

\* IGESControl_Writer::ComputeModel: void, or a raised failure
ComputeModelAnswers ==
  {Resp(FALSE, "", TRUE, 0), Resp(TRUE, "", FALSE, 0)}

\* IGESControl_Writer::Write(ostream, fnes): Standard_Boolean, or a raised failure
IgesWriteAnswers ==
  {Resp(FALSE, "", TRUE, 2)}
    \cup {Resp(FALSE, "", FALSE, k) : k \in {0, 1}}
    \cup {Resp(TRUE, "", FALSE, 1)}

\* BRepTools::Write and TopoDS_Shape::DumpJson: void, or a raised failure
PlainWriteAnswers ==
  {Resp(FALSE, "", TRUE, 2), Resp(TRUE, "", FALSE, 1)}

\* What a stage is asked: its name, the writer's model, its argument and the
\* controller state it can see.
Ask(stage, model, arg, ctl) == [stage |-> stage, model |-> model, arg |-> arg, ctl |-> ctl]

Answers(q, all) == IF q \in DOMAIN memo THEN {memo[q]} ELSE all

Remember(q, r) ==
  IF call = probe /\ q \notin DOMAIN memo THEN (q :> r) @@ memo ELSE memo

\* The file a writer produces, as uninterpreted tokens: a header and the data of
\* the writer's model
Tok(fmt, part, model, arg) == [fmt |-> fmt, part |-> part, model |-> model, arg |-> arg]

Serial(fmt, model, arg) == <<Tok(fmt, "HDR", <<>>, arg), Tok(fmt, "DATA", model, arg)>>

Streamed(s, fmt, model, arg, n) == s \o SubSeq(Serial(fmt, model, arg), 1, n)

\* IGESControl_Controller::Init(): registers the controller once
IGESControl_Controller_Init(ctl) ==
  IF ctl.inited THEN ctl ELSE [inited |-> TRUE, regs |-> ctl.regs + 1]

----------------------------------------------------------------------------
(* The statements of the sources *)

EmptyWriter == [model |-> <<>>, computed |-> FALSE]

Automatic_static_ss(obj) == obj # "ss"
Automatic_static_writer(obj) == obj # "writer"
\* `STEPControl_Writer writer;`, `IGESControl_Writer writer;` and
\* `std::ostringstream ss;` are automatic locals: constructed afresh where
\* declared, destroyed when the function returns or is unwound
Automatic(obj) == TRUE

Constructed_writer == IF Automatic("writer") \/ "writer" \notin live THEN EmptyWriter ELSE writer
Constructed_ss == IF Automatic("ss") \/ "ss" \notin live THEN <<>> ELSE sink

Catches_step(fn) == fn = "STEP"
\* no exporter has a try block
Catches(fn) == FALSE

TransferFailed_onlyFail(status) == status = "RetFail"
\* `if (status != IFSelect_RetDone)` after Transfer
TransferFailed(status) == status # IFSelect_RetDone

WriteFailed_unchecked(status) == FALSE
\* `if (status != IFSelect_RetDone)` after WriteStream
WriteFailed(status) == status # IFSelect_RetDone

STEP_FailValue_partial(s) == s
\* `return "";`
STEP_FailValue(s) == <<>>

STEP_DoneValue_empty(s) == <<>>
\* `return ss.str();`
STEP_DoneValue(s) == s

\* the second argument of writer.Write: Standard_False
IGES_fnes == FALSE

IGES_Order_initLate ==
  <<"writer", "AddShape", "ComputeModel", "ss", "Write", "Init", "return">>
\* the statements of IGES_WriteToString, in order
IGES_Order ==
  <<"Init", "writer", "AddShape", "ComputeModel", "ss", "Write", "return">>

IGES_Next(stmt) ==
  LET i == CHOOSE j \in 1..Len(IGES_Order) : IGES_Order[j] = stmt
  IN <<"IGES", IGES_Order[i + 1]>>

getStandard_FailureData_checked(exceptionPtr) ==
  IF exceptionPtr \in DOMAIN heap /\ heap[exceptionPtr] = "Standard_Failure"
    THEN exceptionPtr ELSE 0
\* reinterpret_cast<Standard_Failure*>(exceptionPtr): the same address
getStandard_FailureData(exceptionPtr) == exceptionPtr

----------------------------------------------------------------------------
(* History of completed calls *)

NoHist ==
  [probeRet |-> NoRet, probeRuns |-> 0, between |-> "none",
   igesRuns |-> 0, igesFirst |-> [inited |-> FALSE, regs |-> 0]]

Min(a, b) == IF a < b THEN a ELSE b

Completed(r) ==
  [probeRet |-> IF call = probe /\ hist.probeRuns = 0 THEN r ELSE hist.probeRet,
   probeRuns |-> IF call = probe THEN Min(hist.probeRuns + 1, 2) ELSE hist.probeRuns,
   between |->
     IF call = probe \/ hist.probeRuns # 1 THEN hist.between
     ELSE IF r.line \in {15, 21} \/ hist.between = "stepFailed" THEN "stepFailed"
     ELSE "export",
   igesRuns |-> IF call.fn = "IGES" THEN Min(hist.igesRuns + 1, 2) ELSE hist.igesRuns,
   igesFirst |-> IF call.fn = "IGES" /\ hist.igesRuns = 0 THEN igesCtl ELSE hist.igesFirst]

----------------------------------------------------------------------------
(* Initial state: nothing has been called, the controller is not initialised *)

Init ==
  /\ pc = Idle
  /\ call = NoCall
  /\ writer = EmptyWriter
  /\ sink = <<>>
  /\ live = {}
  /\ trace = <<>>
  /\ ret = NoRet
  /\ igesCtl = [inited |-> FALSE, regs |-> 0]
  /\ heap = NativeHeap
  /\ probe \in Probes
  /\ memo = <<>>
  /\ hist = NoHist

\* The host calls one of the four exporters.
Begin(c) ==
  /\ pc = Idle
  /\ call' = c
  /\ pc' = CASE c.fn = "BRep" -> <<"BRep", "ss">>
             [] c.fn = "DumpJson" -> <<"DumpJson", "ss">>
             [] c.fn = "IGES" -> <<"IGES", IGES_Order[1]>>
             [] c.fn = "STEP" -> <<"STEP", "writer">>
  /\ trace' = <<>>
  /\ ret' = NoRet
  /\ UNCHANGED <<writer, sink, live, igesCtl, heap, probe, memo, hist>>

\* The call gives r to its caller: its automatic locals are destroyed.
Return(r) ==
  /\ pc' = Idle
  /\ ret' = r
  /\ live' = {o \in live : ~Automatic(o)}
  /\ writer' = IF Automatic("writer") THEN EmptyWriter ELSE writer
  /\ sink' = IF Automatic("ss") THEN <<>> ELSE sink
  /\ hist' = Completed(r)

\* A kernel stage raised: the stack is unwound; nothing here catches.
Raise(e) ==
  /\ trace' = Append(trace, [e EXCEPT !.st = "throw"])
  /\ Return(IF Catches(call.fn) THEN StringRet(<<>>, 0) ELSE ExceptionRet)

\* A kernel stage answered r: it raised, or it left the writer as w and the
\* sink as s and the function goes on at next.
Answered(e, r, next, w, s) ==
  IF r.throws
    THEN Raise(e)
    ELSE /\ trace' = Append(trace, e)
         /\ pc' = next
         /\ writer' = w
         /\ sink' = s
         /\ UNCHANGED <<live, ret, hist>>

\* `std::ostringstream ss;`
Declare_ss(next) ==
  /\ sink' = Constructed_ss
  /\ live' = live \cup {"ss"}
  /\ trace' = Append(trace, Ev("ss", "", "", 0))
  /\ pc' = next
  /\ UNCHANGED <<call, writer, ret, igesCtl, heap, probe, memo, hist>>

\* `STEPControl_Writer writer;` / `IGESControl_Writer writer;`
Declare_writer(next) ==
  /\ writer' = Constructed_writer
  /\ live' = live \cup {"writer"}
  /\ trace' = Append(trace, Ev("writer", "", "", 0))
  /\ pc' = next
  /\ UNCHANGED <<call, sink, ret, igesCtl, heap, probe, memo, hist>>

\* `return ss.str();` and `return "";`
ReturnString(s, ln) ==
  /\ Return(StringRet(s, ln))
  /\ UNCHANGED <<call, trace, igesCtl, heap, probe, memo>>

----------------------------------------------------------------------------
(* OCJS_IO::BRep_WriteToString *)

BRep_ss ==
  /\ pc = <<"BRep", "ss">>
  /\ Declare_ss(<<"BRep", "Write">>)

BRep_Write ==
  /\ pc = <<"BRep", "Write">>
  /\ LET model == <<(<<call.shape, 0>>)>>
         q == Ask("BRepTools::Write", model, <<0, 0>>, FALSE)
     IN \E r \in Answers(q, PlainWriteAnswers) :
          /\ memo' = Remember(q, r)
          /\ Answered(Ev("BRepTools::Write", "", "", r.n), r, <<"BRep", "return">>,
                      writer, Streamed(sink, "BRep", model, 0, r.n))
  /\ UNCHANGED <<call, igesCtl, heap, probe>>

BRep_return ==
  /\ pc = <<"BRep", "return">>
  /\ ReturnString(sink, 9)

----------------------------------------------------------------------------
(* OCJS_IO::Shape_DumpJsonToString *)

Dump_ss ==
  /\ pc = <<"DumpJson", "ss">>
  /\ Declare_ss(<<"DumpJson", "DumpJson">>)

Dump_DumpJson ==
  /\ pc = <<"DumpJson", "DumpJson">>
  /\ LET model == <<(<<call.shape, 0>>)>>
         q == Ask("DumpJson", model, <<call.param, 0>>, FALSE)
     IN \E r \in Answers(q, PlainWriteAnswers) :
          /\ memo' = Remember(q, r)
          /\ Answered(Ev("DumpJson", "", "", r.n), r, <<"DumpJson", "return">>,
                      writer, Streamed(sink, "DumpJson", model, call.param, r.n))
  /\ UNCHANGED <<call, igesCtl, heap, probe>>

Dump_return ==
  /\ pc = <<"DumpJson", "return">>
  /\ ReturnString(sink, 8)

----------------------------------------------------------------------------
(* OCJS_IO::IGES_WriteToString *)

IGES_Init ==
  /\ pc = <<"IGES", "Init">>
  /\ igesCtl' = IGESControl_Controller_Init(igesCtl)
  /\ trace' = Append(trace, Ev("Init", "", "", 0))
  /\ pc' = IGES_Next("Init")
  /\ UNCHANGED <<call, writer, sink, live, ret, heap, probe, memo, hist>>

IGES_writer ==
  /\ pc = <<"IGES", "writer">>
  /\ Declare_writer(IGES_Next("writer"))

IGES_AddShape ==
  /\ pc = <<"IGES", "AddShape">>
  /\ LET q == Ask("AddShape", writer.model, <<call.shape, 0>>, igesCtl.inited)
     IN \E r \in Answers(q, AddShapeAnswers) :
          /\ memo' = Remember(q, r)
          /\ Answered(Ev("AddShape", IF r.ok THEN "true" ELSE "false", "", 0), r,
                      IGES_Next("AddShape"),
                      IF r.ok
                        THEN [writer EXCEPT !.model = Append(@, <<call.shape, 0>>)]
                        ELSE writer,
                      sink)
  /\ UNCHANGED <<call, igesCtl, heap, probe>>

IGES_ComputeModel ==
  /\ pc = <<"IGES", "ComputeModel">>
  /\ LET q == Ask("ComputeModel", writer.model, <<0, 0>>, igesCtl.inited)
     IN \E r \in Answers(q, ComputeModelAnswers) :
          /\ memo' = Remember(q, r)
          /\ Answered(Ev("ComputeModel", "", "", 0), r, IGES_Next("ComputeModel"),
                      [writer EXCEPT !.computed = TRUE], sink)
  /\ UNCHANGED <<call, igesCtl, heap, probe>>

IGES_ss ==
  /\ pc = <<"IGES", "ss">>
  /\ Declare_ss(IGES_Next("ss"))

IGES_Write ==
  /\ pc = <<"IGES", "Write">>
  /\ LET fnes == IF IGES_fnes THEN 1 ELSE 0
         q == Ask("Write", writer.model, <<fnes, 0>>, igesCtl.inited)
     IN \E r \in Answers(q, IgesWriteAnswers) :
          /\ memo' = Remember(q, r)
          /\ Answered(Ev("Write", IF r.ok THEN "true" ELSE "false",
                         IF IGES_fnes THEN "binary" ELSE "text", r.n), r,
                      IGES_Next("Write"),
                      writer, Streamed(sink, "IGES", writer.model, fnes, r.n))
  /\ UNCHANGED <<call, igesCtl, heap, probe>>

IGES_return ==
  /\ pc = <<"IGES", "return">>
  /\ ReturnString(sink, 14)

----------------------------------------------------------------------------
(* OCJS_IO::STEP_WriteToString *)

STEP_writer ==
  /\ pc = <<"STEP", "writer">>
  /\ Declare_writer(<<"STEP", "Transfer">>)

\* lines 13-16: Transfer, and the test of its status
STEP_Transfer ==
  /\ pc = <<"STEP", "Transfer">>
  /\ LET q == Ask("Transfer", writer.model, <<call.shape, call.param>>, FALSE)
     IN \E r \in Answers(q, TransferAnswers) :
          /\ memo' = Remember(q, r)
          /\ Answered(Ev("Transfer", r.status, "", 0), r,
                      IF TransferFailed(r.status)
                        THEN <<"STEP", "return15">> ELSE <<"STEP", "ss">>,
                      IF r.ok
                        THEN [writer EXCEPT !.model = Append(@, <<call.shape, call.param>>)]
                        ELSE writer,
                      sink)
  /\ UNCHANGED <<call, igesCtl, heap, probe>>

STEP_return15 ==
  /\ pc = <<"STEP", "return15">>
  /\ ReturnString(<<>>, 15)

STEP_ss ==
  /\ pc = <<"STEP", "ss">>
  /\ Declare_ss(<<"STEP", "WriteStream">>)

\* lines 19-22: WriteStream, and the test of its status
STEP_WriteStream ==
  /\ pc = <<"STEP", "WriteStream">>
  /\ LET q == Ask("WriteStream", writer.model, <<0, 0>>, FALSE)
     IN \E r \in Answers(q, WriteStreamAnswers) :
          /\ memo' = Remember(q, r)
          /\ Answered(Ev("WriteStream", r.status, "", r.n), r,
                      IF WriteFailed(r.status)
                        THEN <<"STEP", "return21">> ELSE <<"STEP", "return24">>,
                      writer, Streamed(sink, "STEP", writer.model, 0, r.n))
  /\ UNCHANGED <<call, igesCtl, heap, probe>>

STEP_return21 ==
  /\ pc = <<"STEP", "return21">>
  /\ ReturnString(STEP_FailValue(sink), 21)

STEP_return24 ==
  /\ pc = <<"STEP", "return24">>
  /\ ReturnString(STEP_DoneValue(sink), 24)

----------------------------------------------------------------------------
(* OCJS::getStandard_FailureData *)

DescribeFailure(token) ==
  /\ pc = Idle
  /\ call' = [fn |-> "describeFailure", shape |-> 0, param |-> token]
  /\ ret' = ViewRet(getStandard_FailureData(token), 6)
  /\ trace' = <<>>
  /\ UNCHANGED <<pc, writer, sink, live, igesCtl, heap, probe, memo, hist>>

----------------------------------------------------------------------------

Next ==
  \/ \E c \in ExportCalls : Begin(c)
  \/ BRep_ss
  \/ BRep_Write
  \/ BRep_return
  \/ Dump_ss
  \/ Dump_DumpJson
  \/ Dump_return
  \/ IGES_Init
  \/ IGES_writer
  \/ IGES_AddShape
  \/ IGES_ComputeModel
  \/ IGES_ss
  \/ IGES_Write
  \/ IGES_return
  \/ STEP_writer
  \/ STEP_Transfer
  \/ STEP_return15
  \/ STEP_ss
  \/ STEP_WriteStream
  \/ STEP_return21
  \/ STEP_return24
  \/ \E token \in Tokens : DescribeFailure(token)

Spec == Init /\ [][Next]_vars


----------------------------------------------------------------------------
(* Reading the trace of the current (last) call *)

Stages(e) == {i \in 1..Len(trace) : trace[i].ev = e}

Raised == Len(trace) > 0 /\ trace[Len(trace)].st = "throw"

\* a status-reporting STEP stage came back with a status other than "done"
NotDone(e) == \E i \in Stages(e) : trace[i].st \notin {IFSelect_RetDone, "throw"}

\* a Boolean IGES stage came back false
ToldFalse(e) == \E i \in Stages(e) : trace[i].st = "false"

Finished(fn) == pc = Idle /\ call.fn = fn

ThisShape == <<call.shape, call.param>>

\* The states of exportStepLike, read off the position in STEP_WriteToString
StepState ==
  IF call.fn # "STEP" THEN "None"
  ELSE IF pc \in {<<"STEP", "writer">>, <<"STEP", "Transfer">>} THEN "Idle"
  ELSE IF pc \in {<<"STEP", "ss">>, <<"STEP", "WriteStream">>} THEN "Transferred"
  ELSE IF pc = <<"STEP", "return24">> THEN "Written"
  ELSE IF pc \in {<<"STEP", "return15">>, <<"STEP", "return21">>} THEN "Failed"
  ELSE IF ret.kind = "string" /\ ret.line = 24 THEN "Done"
  ELSE IF ret.kind = "string" /\ ret.line \in {15, 21} THEN "Failed"
  ELSE IF ret.kind = "exception" THEN "Raised"
  ELSE "Other"

StepArcs ==
  {<<"Idle", "Idle">>, <<"Idle", "Transferred">>, <<"Idle", "Failed">>,
   <<"Idle", "Raised">>, <<"Transferred", "Transferred">>,
   <<"Transferred", "Written">>, <<"Transferred", "Failed">>,
   <<"Transferred", "Raised">>, <<"Written", "Done">>, <<"Failed", "Failed">>}

----------------------------------------------------------------------------
(* The claims *)

\* C1: in STEP_WriteToString, for every shape and each of the five modes, once
\* Transfer has returned a status other than "done" the function goes straight
\* to `return ""`: it raises nothing, never runs WriteStream, never constructs
\* or reads the sink, and what the caller gets is the empty string.
C1_TransferFailureReturnsEmpty ==
  (call.fn = "STEP" /\ NotDone("Transfer")) =>
     /\ Stages("ss") = {} /\ Stages("WriteStream") = {}
     /\ "ss" \notin live /\ sink = <<>>
     /\ pc \in {<<"STEP", "return15">>, Idle}
     /\ pc = Idle => ret = StringRet(<<>>, 15)

C1_Witness ==
  /\ Finished("STEP") /\ call.param = 4 /\ call.shape = 2
  /\ \E i \in Stages("Transfer") : trace[i].st = "RetError"
  /\ ret.kind = "string" /\ ret.val = <<>>

\* C2: in STEP_WriteToString, when Transfer was done and WriteStream returns a
\* status other than "done", the caller gets the empty string whatever
\* WriteStream had already streamed into the sink.
C2_WriteFailureReturnsEmpty ==
  (Finished("STEP") /\ NotDone("WriteStream")) => ret = StringRet(<<>>, 21)

C2_Witness ==
  /\ Finished("STEP")
  /\ \E i \in Stages("Transfer") : trace[i].st = IFSelect_RetDone
  /\ \E i \in Stages("WriteStream") : trace[i].st = "RetFail" /\ trace[i].n = 1
  /\ ret.kind = "string" /\ ret.val = <<>>

\* C3: every execution of STEP_WriteToString follows Idle -> Transferred ->
\* Written -> Done: WriteStream runs only after a Transfer that returned "done",
\* Done (the sink's content returned) is reached only after a WriteStream that
\* returned "done", Failed is entered only right after a Transfer or a
\* WriteStream that returned another status, and once in Failed no further
\* stage runs and the result is the empty string.
C3_StepStateMachine ==
  /\ [](call.fn = "STEP" =>
          /\ \A i \in Stages("WriteStream") :
               \E j \in Stages("Transfer") : j < i /\ trace[j].st = IFSelect_RetDone
          /\ StepState \in {"Written", "Done"} =>
               /\ \E i \in Stages("WriteStream") : trace[i].st = IFSelect_RetDone
               /\ ~NotDone("WriteStream") /\ ~NotDone("Transfer")
          /\ StepState = "Done" => ret.val = Serial("STEP", <<ThisShape>>, 0)
          /\ StepState = "Failed" =>
               /\ trace[Len(trace)].ev \in {"Transfer", "WriteStream"}
               /\ trace[Len(trace)].st \notin {IFSelect_RetDone, "throw"}
               /\ pc = Idle => ret.val = <<>>)
  /\ [][(call.fn = "STEP" /\ pc # Idle) =>
          /\ call' = call
          /\ <<StepState, StepState'>> \in StepArcs
          /\ StepState = "Failed" =>
               trace' = trace /\ ret'.kind = "string" /\ ret'.val = <<>>]_vars

C3_Witness ==
  /\ Finished("STEP") /\ StepState = "Done" /\ call.param = STEPControl_AsIs
  /\ Len(trace) = 4 /\ ret.val # <<>>

\* C4: for both neutral-exchange serializers (IGES_WriteToString and
\* STEP_WriteToString), a transfer failure and a write failure reported by the
\* kernel stage (no exception raised) are each signalled to the caller by the
\* empty string, never by whatever the sink holds.
C4_FailuresReturnEmptyString ==
  ((Finished("IGES") \/ Finished("STEP")) /\ ~Raised
     /\ (NotDone("Transfer") \/ NotDone("WriteStream")
           \/ ToldFalse("AddShape") \/ ToldFalse("Write"))) =>
     (ret.kind = "string" /\ ret.val = <<>>)

C6_IgesStagesInOrder ==
  LET want == <<"Init", "writer", "AddShape", "ComputeModel", "ss", "Write">>
  IN /\ call.fn = "IGES" =>
          /\ Len(trace) <= Len(want)
          /\ \A i \in 1..Len(trace) : trace[i].ev = want[i]
          /\ \A i \in Stages("Write") : trace[i].arg = "text"
          /\ writer.model \in {<<>>, <<ThisShape>>}
          /\ (pc = Idle /\ ret.kind = "string") => Len(trace) = Len(want)
     /\ hist.igesRuns >= 1 => (igesCtl = hist.igesFirst /\ igesCtl.inited)

C6_Witness ==
  /\ Finished("IGES") /\ hist.igesRuns = 2 /\ Len(trace) = 6
  /\ ret.kind = "string" /\ ret.val = Serial("IGES", <<ThisShape>>, 0)

\* C7: no exporter catches: when a kernel stage of any of the four raises, the
\* call ends there with the exception propagated to the caller and no string
\* returned, neither the empty string nor the sink's content; and only a raised
\* stage ends a call that way.
C7_ExceptionsPropagate ==
  /\ Raised => (pc = Idle /\ ret = ExceptionRet)
  /\ ret.kind = "exception" => Raised

C7_Witness ==
  /\ Finished("STEP") /\ ret = ExceptionRet
  /\ trace[Len(trace)] = Ev("WriteStream", "throw", "", 1)

\* C8: a call's writer and sink are created within the call and dropped when it
\* returns, so a later call sees nothing of them: the writer only ever holds the
\* current call's shape, the sink only what the current call streamed, between
\* calls neither exists, the outcome of the probe call is the same after any
\* sequence of calls (failed STEP calls included), and no step of an exporter
\* takes the initialised controller back.
C8_NoStateAcrossCalls ==
  /\ [](/\ pc = Idle => (live = {} /\ writer = EmptyWriter /\ sink = <<>>)
        /\ writer.model \in {<<>>, <<ThisShape>>}
        /\ \A i \in 1..Len(sink) : sink[i].model \in {<<>>, <<(<<call.shape, 0>>)>>, <<ThisShape>>}
        /\ Len(sink) <= 2
        /\ (pc = Idle /\ call = probe) => ret = hist.probeRet)
  /\ [][igesCtl.inited => igesCtl' = igesCtl]_vars

C8_Witness ==
  /\ pc = Idle /\ call = probe /\ probe.fn = "IGES"
  /\ hist.probeRuns = 2 /\ hist.between = "stepFailed"
  /\ ret.kind = "string" /\ ret.val # <<>>

\* C9: getStandard_FailureData never raises and has no side effect: for every
\* token the caller gets a view at exactly the token's address, whatever lives
\* there, and the heap and all other state are left as they were.
C9_DescribeFailureIsPureCast ==
  [][(pc = Idle /\ pc' = Idle) =>
       /\ ret' = ViewRet(call'.param, 6)
       /\ call'.fn = "describeFailure"
       /\ UNCHANGED <<heap, igesCtl, writer, sink, live, memo, hist, probe>>]_vars

C9_Witness ==
  /\ call.fn = "describeFailure" /\ call.param = 2
  /\ heap[2] = "other" /\ ret.kind = "view" /\ ret.addr = 2

\* C10: STEP_WriteToString returns the empty string exactly when Transfer or
\* WriteStream returned a status other than "done"; when both returned "done"
\* the caller gets the whole content written, which is not empty.
C10_EmptyIffFailed ==
  (Finished("STEP") /\ ret.kind = "string") =>
     /\ ret.val = <<>> <=> (NotDone("Transfer") \/ NotDone("WriteStream"))
     /\ ~(NotDone("Transfer") \/ NotDone("WriteStream")) =>
          (ret.val = Serial("STEP", <<ThisShape>>, 0) /\ Len(ret.val) = 2)

C10_Witness ==
  /\ Finished("STEP") /\ call.param = 1 /\ call.shape = 2
  /\ ret.line = 24 /\ ret.val = Serial("STEP", <<ThisShape>>, 0)

====
